---- MODULE Spec2Model ----
(***************************************************************************)
(* Model of the credential core of irisanalysis/datalab0826:               *)
(*   - the FastAPI auth service (src/api/app): users, refresh-token rows,  *)
(*     login / refresh / logout handlers and RefreshTokenManager;          *)
(*   - the API gateway (src/backend/apps/api_gateway): AuthMiddleware and  *)
(*     ServiceProxy.forward_request.                                       *)
(* The auth service runs as a pool of workers over one database; every     *)
(* db.commit() is one atomic step, and workers interleave between commits. *)
(***************************************************************************)
EXTENDS Integers, Sequences, FiniteSets, TLC

(* ------------------------------ bounds --------------------------------- *)
\* number of request-handling workers of the auth service
NumWorkers == 2
\* the clock runs from 0 to MaxTime
MaxTime == 2
\* the table refresh_tokens holds at most MaxTokens rows
MaxTokens == 3
\* settings.refresh_ttl, in model clock units (scaled down from 604800 s)
RefreshTTL == 1
\* settings.access_ttl, in model clock units (scaled down from 900 s)
AccessTTL == 1
\* the access tokens the Flask app issues
MaxFlaskTokens == 2
\* settings.rate_limit_requests of the gateway (scaled down from 100)
RateLimit == 2
\* settings.rate_limit_period of the gateway, in clock units (scaled down from 60 s)
Window == 2
\* the clock of the rate limiters runs from 0 to MaxClock
MaxClock == 3
\* settings.rate_limit_auth of the auth service (scaled down from 10)
AuthLimit == 2
\* settings.rate_limit_refresh of the auth service (scaled down from 5)
RefreshLimit == 1
\* max_age_seconds of cleanup_old_entries (3600 s, never less than the window
\* of a limiter), scaled down to the window
MaxAge == Window

Workers == 1..NumWorkers
RawEmails == {"a@x", "A@x", "b@x"}
Passwords == {"pw1", "pw2"}
\* the passwords accounts are registered with
RegisterPasswords == {"pw1"}

(* --------------------------- pure functions ---------------------------- *)
\* str.lower() on the e-mail addresses of the model
Lower(e) == IF e = "A@x" THEN "a@x" ELSE e

\* PasswordManager.hash_password: bcrypt of the password
hash_password(p) == <<"bcrypt", p>>

\* the fixed dummy hash login compares against when the user does not exist
DummyHash == <<"$2b$12$dummy.hash.to.prevent.timing.attacks">>

\* PasswordManager.verify_password: bcrypt.checkpw(password, hashed)
verify_password(p, hashed) == hash_password(p) = hashed

\* JWTManager.hash_token: sha256 hex digest of the plaintext
hash_token(t) == <<"sha256", t>>

\* the SQL NULL of refresh_tokens.revoked_at; a set timestamp t is <<t>>
NULL == << >>

\* JWTManager.create_refresh_token: secrets.token_urlsafe(32), a plaintext no
\* row of the table holds. The handler draws it before it revokes the old
\* row; nothing sees it before the row is inserted, so the model draws it there.
create_refresh_token(db) == Len(db) + 1

\* a plaintext that JWTManager.create_refresh_token never returned
ForgedToken == MaxTokens + 1
\* what a client can put in the refresh_token cookie; 0 is "no cookie"
Presentable == 0..ForgedToken

\* JWTManager.create_access_token at time t
create_access_token(uid, t) == [sub |-> uid, type |-> "access", exp |-> t + AccessTTL]
NoAccess == [sub |-> 0, type |-> "none", exp |-> 0]

\* is_revoked with its test inverted
is_revoked_inverted(row) == row.revoked_at = NULL

\* RefreshToken.is_revoked
is_revoked(row) == row.revoked_at # NULL

\* RefreshToken.is_expired at time t
is_expired(row, t) == t > row.expires_at

\* the rows a query filtered on token_hash returns, as row ids
RowsWithHash(db, h) == {i \in 1..Len(db) : db[i].token_hash = h}

\* .first() of a query: the row with the least id, 0 when there is none
First(ids) == IF ids = {} THEN 0 ELSE CHOOSE i \in ids : \A j \in ids : i <= j

\* RefreshTokenManager.verify_refresh_token: the id of the record, 0 for None
verify_refresh_token(db, token, t) ==
    LET rid == First(RowsWithHash(db, hash_token(token)))
    IN  IF rid = 0 THEN 0
        ELSE IF is_revoked(db[rid]) THEN 0
        ELSE IF is_expired(db[rid], t) THEN 0
        ELSE rid

\* revoke_refresh_token that revokes every token of the record's user
revoke_refresh_token_of_user(db, rid, t) ==
    [i \in 1..Len(db) |->
        IF db[i].user_id = db[rid].user_id
        THEN [db[i] EXCEPT !.revoked_at = <<t>>]
        ELSE db[i]]

\* revoke_refresh_token whose UPDATE is never committed
revoke_refresh_token_uncommitted(db, rid, t) == db

\* RefreshTokenManager.revoke_refresh_token: UPDATE of one row, committed
revoke_refresh_token(db, rid, t) == [db EXCEPT ![rid].revoked_at = <<t>>]

\* revoke_all_user_tokens whose UPDATE lacks the user_id filter
revoke_all_user_tokens_unfiltered(db, uid, t) ==
    [i \in 1..Len(db) |->
        IF db[i].revoked_at = NULL
        THEN [db[i] EXCEPT !.revoked_at = <<t>>]
        ELSE db[i]]

\* RefreshTokenManager.revoke_all_user_tokens: one UPDATE ... WHERE, committed
revoke_all_user_tokens(db, uid, t) ==
    [i \in 1..Len(db) |->
        IF db[i].user_id = uid /\ db[i].revoked_at = NULL
        THEN [db[i] EXCEPT !.revoked_at = <<t>>]
        ELSE db[i]]

\* create_refresh_token_record that stores a digest verify_refresh_token does
\* not compute
create_refresh_token_record_md5(db, uid, token, t) ==
    Append(db, [user_id |-> uid, token_hash |-> <<"md5", token>>,
                expires_at |-> t + RefreshTTL, revoked_at |-> NULL])

\* RefreshTokenManager.create_refresh_token_record: INSERT of one row, committed
create_refresh_token_record(db, uid, token, t) ==
    Append(db, [user_id |-> uid, token_hash |-> hash_token(token),
                expires_at |-> t + RefreshTTL, revoked_at |-> NULL])

\* db.query(User).filter(User.email == e).first(): the user id, 0 for None
UserByEmail(us, e) == First({i \in 1..Len(us) : us[i].email = e})

(* ------------------------------- state --------------------------------- *)
VARIABLES
    now,             \* datetime.now(timezone.utc)
    users,           \* table users: row id |-> [email, password_hash]
    refresh_tokens,  \* table refresh_tokens: row id |-> RefreshToken
    parent,          \* history: row id |-> plaintext whose rotation made the row
    pc,              \* worker |-> position inside its handler
    local,           \* worker |-> locals of the handler it is in
    resp             \* the response the last step sent, NoResp when it sent none

authVars == <<now, users, refresh_tokens, parent, pc, local, resp>>

\* the API gateway, serving one request at a time through its middleware
VARIABLES
    gwPc,            \* where the request is: idle, auth, route, forwarding
    gwReq,           \* the request being served
    gwUser,          \* request.state.user_id, "" while unset
    gwSent,          \* whether forward_request sent the request downstream
    gwOutcome,       \* history: what the downstream call came to
    gwResp           \* the response to the client

\* RateLimitMiddleware and ServiceProxy of the gateway
VARIABLES
    ip_buckets,      \* RateLimitMiddleware.ip_buckets: client ip |-> TokenBucket
    ip_windows,      \* RateLimitMiddleware.ip_windows: client ip |-> deque of timestamps
    gwHist,          \* history: client ip |-> first and last check, recent admissions
    _health_status,  \* ServiceProxy._health_status: service |-> cached probe result
    hcPos            \* periodic_health_check: 0 asleep, k about to probe the k-th service

pipeVars == <<gwPc, gwReq, gwUser, gwSent, gwOutcome, gwResp>>
rlVars == <<ip_buckets, ip_windows, gwHist>>
hcVars == <<_health_status, hcPos>>
gwVars == <<pipeVars, rlVars, hcVars>>

\* MemoryRateLimiter of the auth service
VARIABLES
    _requests,       \* MemoryRateLimiter._requests: key |-> deque of timestamps
    limHist,         \* history: key |-> first and last check, recent admissions
    limResp          \* what the last check_rate_limit call came to

limVars == <<_requests, limHist, limResp>>

\* the Flask app (src/main.py), one process
VARIABLES
    flTokens,            \* history: jti |-> the access token create_access_token issued
    blacklisted_tokens,  \* the module-level set blacklisted_tokens, of jti
    flLoggedOut,         \* history: the jti whose logout was answered 200
    flResp               \* the response the last step sent

flVars == <<flTokens, blacklisted_tokens, flLoggedOut, flResp>>

\* the background tasks of the two lifespans
VARIABLES
    hcBody,              \* health_check_service is awaiting response.json()
    cuPos,               \* periodic_cleanup: 0 asleep, 1 entering cleanup_old_entries
    cancelling,          \* the tasks whose cancel() is yet to be delivered
    finished,            \* the tasks that have returned
    lifespan             \* task |-> where the lifespan that owns it is

bgVars == <<hcBody, cuPos, cancelling, finished, lifespan>>

vars == <<authVars, gwVars, limVars, flVars, bgVars>>
\* what the steps of one component leave alone
exceptAuth == <<gwVars, limVars, flVars, bgVars>>
exceptGw == <<authVars, limVars, flVars, bgVars>>
exceptLim == <<authVars, gwVars, flVars, bgVars>>
exceptFlask == <<users, refresh_tokens, parent, pc, local, resp, gwVars, limVars, bgVars>>
exceptTasks == <<authVars, pipeVars, rlVars, limHist, limResp, flVars>>

NoLocal == [token |-> 0, rid |-> 0, uid |-> 0, access |-> NoAccess,
            email |-> "", password |-> ""]

\* a response: HTTP status and detail, the cookies it sets, and (history) the
\* operation, the token presented (the user id for revoke_all), the branch
\* the handler took and the hash it compared the password with
Response(op, status, detail, presented, access, refresh, branch) ==
    [op |-> op, status |-> status, detail |-> detail, presented |-> presented,
     access |-> access, refresh |-> refresh, branch |-> branch, compared |-> << >>]

\* a login failure that tells an unknown user from a wrong password
LoginFailureLeaky(branch, hashed) ==
    [Response("login", IF branch = "no_user" THEN 404 ELSE 401,
              IF branch = "no_user" THEN "User not found" ELSE "Invalid password",
              0, NoAccess, 0, branch)
        EXCEPT !.compared = hashed]

\* what login raises when the user is unknown or the password is wrong
LoginFailure(branch, hashed) ==
    [Response("login", 401, "Invalid credentials", 0, NoAccess, 0, branch)
        EXCEPT !.compared = hashed]

\* the warning verify_refresh_token logs when it returns None
LoggedReason(db, token, t) ==
    LET rid == First(RowsWithHash(db, hash_token(token)))
    IN  IF rid = 0 THEN "not_found"
        ELSE IF is_revoked(db[rid]) THEN "revoked"
        ELSE IF is_expired(db[rid], t) THEN "expired"
        ELSE ""
RefusalReasons == {"not_found", "revoked", "expired"}

\* a refresh failure that tells the caller why the token was refused
RefreshFailureLeaky(token, reason) ==
    Response("refresh", IF reason = "not_found" THEN 404 ELSE 401,
             IF reason = "expired" THEN "Refresh token expired"
             ELSE "Invalid refresh token", token, NoAccess, 0, reason)

\* what refresh raises when verify_refresh_token returns None
RefreshFailure(token, reason) ==
    Response("refresh", 401, "Invalid or expired refresh token", token, NoAccess, 0, reason)

NoResp == Response("none", 0, "", 0, NoAccess, 0, "")

AuthInit ==
    /\ now = 0
    /\ users = << >>
    /\ refresh_tokens = << >>
    /\ parent = << >>
    /\ pc = [w \in Workers |-> "idle"]
    /\ local = [w \in Workers |-> NoLocal]
    /\ resp = NoResp

(* ------------------------------ actions -------------------------------- *)
\* the clock advances
Tick ==
    /\ now < MaxTime
    /\ now' = now + 1
    /\ resp' = NoResp
    /\ UNCHANGED <<users, refresh_tokens, parent, pc, local>>
    /\ UNCHANGED exceptAuth

\* POST /api/auth/register
Register(w, email, password, csrf, commit_ok) ==
    /\ pc[w] = "idle"
    /\ IF ~csrf
       THEN /\ resp' = Response("register", 403,
                            "CSRF protection required", 0, NoAccess, 0, "csrf")
            /\ UNCHANGED users
       ELSE IF UserByEmail(users, Lower(email)) # 0
       THEN /\ resp' = Response("register", 400,
                            "Registration failed. Please check your information and try again.",
                            0, NoAccess, 0, "exists")
            /\ UNCHANGED users
       ELSE IF ~commit_ok
       THEN /\ resp' = Response("register", 500,
                            "Registration failed. Please try again.", 0, NoAccess, 0, "fault")
            /\ UNCHANGED users
       ELSE /\ users' = Append(users, [email |-> Lower(email),
                                       password_hash |-> hash_password(password)])
            /\ resp' = Response("register", 200,
                            "Registration successful", 0, NoAccess, 0, "ok")
    /\ UNCHANGED <<now, refresh_tokens, parent, pc, local>>
    /\ UNCHANGED exceptAuth

\* a users table without the unique index on email
violates_unique_email_never(us, email) == FALSE

\* the unique index on users.email refuses a row with this address
violates_unique_email(us, email) == \E i \in 1..Len(us) : us[i].email = email

\* POST /api/auth/register when other workers run between its statements: the
\* query for an existing user
RegisterBegin(w, email, password) ==
    /\ pc[w] = "idle"
    /\ IF UserByEmail(users, Lower(email)) # 0
       THEN /\ resp' = Response("register", 400,
                            "Registration failed. Please check your information and try again.",
                            0, NoAccess, 0, "exists")
            /\ UNCHANGED <<pc, local>>
       ELSE /\ pc' = [pc EXCEPT ![w] = "register_checked"]
            /\ local' = [local EXCEPT ![w] = [NoLocal EXCEPT !.email = Lower(email),
                                                            !.password = password]]
            /\ resp' = NoResp
    /\ UNCHANGED <<now, users, refresh_tokens, parent>>
    /\ UNCHANGED exceptAuth

\* POST /api/auth/register: db.add(new_user), db.commit(); an IntegrityError of
\* the unique index, like every other failure of the commit, is rolled back
\* and answered 500
RegisterCommit(w, commit_ok) ==
    /\ pc[w] = "register_checked"
    /\ IF violates_unique_email(users, local[w].email)
       THEN /\ resp' = Response("register", 500,
                            "Registration failed. Please try again.", 0, NoAccess, 0, "unique")
            /\ UNCHANGED users
       ELSE IF ~commit_ok
       THEN /\ resp' = Response("register", 500,
                            "Registration failed. Please try again.", 0, NoAccess, 0, "fault")
            /\ UNCHANGED users
       ELSE /\ users' = Append(users, [email |-> local[w].email,
                                       password_hash |-> hash_password(local[w].password)])
            /\ resp' = Response("register", 200,
                            "Registration successful", 0, NoAccess, 0, "ok")
    /\ pc' = [pc EXCEPT ![w] = "idle"]
    /\ local' = [local EXCEPT ![w] = NoLocal]
    /\ UNCHANGED <<now, refresh_tokens, parent>>
    /\ UNCHANGED exceptAuth

\* POST /api/auth/login
Login(w, email, password, csrf, commit_ok) ==
    /\ pc[w] = "idle"
    /\ LET uid == UserByEmail(users, Lower(email))
           \* the hash verify_password is called with, on either branch
           hashed == IF uid # 0 THEN users[uid].password_hash ELSE DummyHash
           password_valid == IF uid # 0 THEN verify_password(password, hashed) ELSE FALSE
           branch == IF uid = 0 THEN "no_user"
                     ELSE IF ~password_valid THEN "bad_password" ELSE "ok"
       IN  IF ~csrf
           THEN /\ resp' = Response("login", 403,
                                "CSRF protection required", 0, NoAccess, 0, "csrf")
                /\ UNCHANGED <<refresh_tokens, parent>>
           ELSE IF uid = 0 \/ ~password_valid
           THEN /\ resp' = LoginFailure(branch, hashed)
                /\ UNCHANGED <<refresh_tokens, parent>>
           ELSE /\ Len(refresh_tokens) < MaxTokens
                /\ IF commit_ok
                   THEN /\ refresh_tokens' = create_refresh_token_record(refresh_tokens,
                                                 uid, create_refresh_token(refresh_tokens), now)
                        /\ parent' = Append(parent, 0)
                        /\ resp' = [Response("login", 200, "", 0,
                                        create_access_token(uid, now),
                                        create_refresh_token(refresh_tokens), branch)
                                        EXCEPT !.compared = hashed]
                   ELSE /\ resp' = [Response("login", 500, "Login failed. Please try again.",
                                        0, NoAccess, 0, "fault") EXCEPT !.compared = hashed]
                        /\ UNCHANGED <<refresh_tokens, parent>>
    /\ UNCHANGED <<now, users, pc, local>>
    /\ UNCHANGED exceptAuth

\* POST /api/auth/refresh, up to and including verify_refresh_token
RefreshBegin(w, token) ==
    /\ pc[w] = "idle"
    /\ LET rid == verify_refresh_token(refresh_tokens, token, now)
       IN  IF token = 0
           THEN /\ resp' = Response("refresh", 401,
                                "Refresh token required", token, NoAccess, 0, "no_cookie")
                /\ UNCHANGED <<pc, local>>
           ELSE IF rid = 0
           THEN /\ resp' = RefreshFailure(token, LoggedReason(refresh_tokens, token, now))
                /\ UNCHANGED <<pc, local>>
           ELSE /\ pc' = [pc EXCEPT ![w] = "refresh_verified"]
                /\ local' = [local EXCEPT ![w] = [NoLocal EXCEPT !.token = token, !.rid = rid,
                                                     !.uid = refresh_tokens[rid].user_id]]
                /\ resp' = NoResp
    /\ UNCHANGED <<now, users, refresh_tokens, parent>>
    /\ UNCHANGED exceptAuth

\* POST /api/auth/refresh: the user query, the new tokens, revoke_refresh_token
RefreshRevoke(w, commit_ok) ==
    /\ pc[w] = "refresh_verified"
    /\ IF local[w].uid \notin 1..Len(users)
       THEN /\ resp' = Response("refresh", 401, "User not found",
                            local[w].token, NoAccess, 0, "no_user")
            /\ pc' = [pc EXCEPT ![w] = "idle"]
            /\ local' = [local EXCEPT ![w] = NoLocal]
            /\ UNCHANGED <<refresh_tokens>>
       ELSE /\ IF commit_ok
               THEN /\ refresh_tokens' = revoke_refresh_token(refresh_tokens, local[w].rid, now)
                    /\ pc' = [pc EXCEPT ![w] = "refresh_revoked"]
                    /\ local' = [local EXCEPT ![w].access = create_access_token(local[w].uid, now)]
                    /\ resp' = NoResp
               ELSE /\ resp' = Response("refresh", 500,
                                    "Token refresh failed. Please try again.",
                                    local[w].token, NoAccess, 0, "fault_revoke")
                    /\ pc' = [pc EXCEPT ![w] = "idle"]
                    /\ local' = [local EXCEPT ![w] = NoLocal]
                    /\ UNCHANGED refresh_tokens
    /\ UNCHANGED <<now, users, parent>>
    /\ UNCHANGED exceptAuth

\* POST /api/auth/refresh: create_refresh_token_record and the cookies
RefreshInsert(w, commit_ok) ==
    /\ pc[w] = "refresh_revoked"
    /\ Len(refresh_tokens) < MaxTokens
    /\ IF commit_ok
       THEN /\ refresh_tokens' = create_refresh_token_record(refresh_tokens, local[w].uid,
                                     create_refresh_token(refresh_tokens), now)
            /\ parent' = Append(parent, local[w].token)
            /\ resp' = Response("refresh", 200,
                            "Token refreshed successfully", local[w].token,
                            local[w].access, create_refresh_token(refresh_tokens), "ok")
       ELSE /\ resp' = Response("refresh", 500,
                            "Token refresh failed. Please try again.",
                            local[w].token, NoAccess, 0, "fault_insert")
            /\ UNCHANGED <<refresh_tokens, parent>>
    /\ pc' = [pc EXCEPT ![w] = "idle"]
    /\ local' = [local EXCEPT ![w] = NoLocal]
    /\ UNCHANGED <<now, users>>
    /\ UNCHANGED exceptAuth

\* POST /api/auth/logout, up to and including verify_refresh_token
LogoutBegin(w, token) ==
    /\ pc[w] = "idle"
    /\ LET rid == IF token = 0 THEN 0
                  ELSE verify_refresh_token(refresh_tokens, token, now)
       IN  IF rid = 0
           THEN /\ resp' = Response("logout", 200, "Logout successful",
                                token, NoAccess, 0,
                                IF token = 0 THEN "no_cookie" ELSE "invalid")
                /\ UNCHANGED <<pc, local>>
           ELSE /\ pc' = [pc EXCEPT ![w] = "logout_verified"]
                /\ local' = [local EXCEPT ![w] = [NoLocal EXCEPT !.token = token, !.rid = rid,
                                                     !.uid = refresh_tokens[rid].user_id]]
                /\ resp' = NoResp
    /\ UNCHANGED <<now, users, refresh_tokens, parent>>
    /\ UNCHANGED exceptAuth

\* POST /api/auth/logout: revoke_refresh_token; a failure still answers 200
LogoutRevoke(w, commit_ok) ==
    /\ pc[w] = "logout_verified"
    /\ IF commit_ok
       THEN refresh_tokens' = revoke_refresh_token(refresh_tokens, local[w].rid, now)
       ELSE UNCHANGED refresh_tokens
    /\ resp' = Response("logout", 200, "Logout successful",
                    local[w].token, NoAccess, 0, IF commit_ok THEN "ok" ELSE "fault")
    /\ pc' = [pc EXCEPT ![w] = "idle"]
    /\ local' = [local EXCEPT ![w] = NoLocal]
    /\ UNCHANGED <<now, users, parent>>
    /\ UNCHANGED exceptAuth

\* RefreshTokenManager.revoke_all_user_tokens(db, uid), called by worker w
RevokeAll(w, uid) ==
    /\ pc[w] = "idle"
    /\ uid \in 1..Len(users)
    /\ refresh_tokens' = revoke_all_user_tokens(refresh_tokens, uid, now)
    /\ resp' = Response("revoke_all", 0, "", uid, NoAccess, 0, "ok")
    /\ UNCHANGED <<now, users, parent, pc, local>>
    /\ UNCHANGED exceptAuth

\* the worker process dies inside a handler: no response, nothing rolled
\* back that was committed
Crash(w) ==
    /\ pc[w] # "idle"
    /\ resp' = Response(IF pc[w] = "logout_verified" THEN "logout"
                                            ELSE "refresh", 0, "", local[w].token,
                                            NoAccess, 0, pc[w])
    /\ pc' = [pc EXCEPT ![w] = "idle"]
    /\ local' = [local EXCEPT ![w] = NoLocal]
    /\ UNCHANGED <<now, users, refresh_tokens, parent>>
    /\ UNCHANGED exceptAuth

\* the steps of the auth service when the workers of W serve requests and
\* accounts are registered for the addresses of E
AuthNext(W, E) ==
    \/ \E w \in W, e \in E, p \in RegisterPasswords, c \in BOOLEAN, ok \in BOOLEAN :
          Register(w, e, p, c, ok)
    \/ \E w \in W, e \in RawEmails, p \in Passwords, c \in BOOLEAN, ok \in BOOLEAN :
          Login(w, e, p, c, ok)
    \/ \E w \in W, t \in Presentable : RefreshBegin(w, t)
    \/ \E w \in W, ok \in BOOLEAN : RefreshRevoke(w, ok)
    \/ \E w \in W, ok \in BOOLEAN : RefreshInsert(w, ok)
    \/ \E w \in W, t \in Presentable : LogoutBegin(w, t)
    \/ \E w \in W, ok \in BOOLEAN : LogoutRevoke(w, ok)
    \/ \E w \in W, u \in 1..Len(users) : RevokeAll(w, u)
    \/ \E w \in W : Crash(w)

(* ============================ the API gateway =========================== *)
\* the keys of SERVICE_REGISTRY
SERVICE_REGISTRY ==
    {"data_service", "ai_service", "compute_service", "viz_service", "user_service"}

\* the keys of SERVICE_REGISTRY in the order health_check_all visits them
ServiceOrder ==
    <<"data_service", "ai_service", "compute_service", "viz_service", "user_service">>

\* request paths, as their segments
GwPaths == {<<"health">>, <<"health", "items">>, <<"api", "v1", "auth", "login">>,
            <<"api", "v1", "auth", "refresh">>, <<"api", "v1", "auth", "profile">>,
            <<"data_service", "items">>, <<"billing", "items">>}
GwMethods == {"GET", "POST", "OPTIONS"}

\* where a request comes from: the X-Forwarded-For chain (<< >> when the header
\* is missing), X-Real-IP ("" when missing) and request.client.host
DirectOrigin == [xff |-> << >>, real_ip |-> "", host |-> "ip1"]
\* a client at ip2 behind the proxy at ip1
ProxiedOrigin == [xff |-> <<"ip2", "ip1">>, real_ip |-> "", host |-> "ip1"]
Origins == {DirectOrigin, ProxiedOrigin,
            [xff |-> << >>, real_ip |-> "ip2", host |-> "ip1"]}
NoOrigin == [xff |-> << >>, real_ip |-> "", host |-> ""]

\* AuthMiddleware.SKIP_PATHS
SKIP_PATHS == {<< >>, <<"health">>, <<"metrics">>, <<"api", "v1", "docs">>,
               <<"api", "v1", "redoc">>, <<"api", "v1", "openapi.json">>,
               <<"api", "v1", "auth", "login">>, <<"api", "v1", "auth", "register">>,
               <<"api", "v1", "auth", "refresh">>}

\* path.startswith(("/health", "/metrics", "/.well-known")), on the paths of the model
StartsWithSkipPrefix(path) ==
    Len(path) > 0 /\ path[1] \in {"health", "metrics", ".well-known"}

\* the JWTs a client can send; "none" is no token at all
GwTokens == {"access", "refresh", "notype", "nosub", "expired", "badsig", "malformed"}

\* the claims a token carries
Payload(tok) ==
    [sub  |-> IF tok = "nosub" THEN "" ELSE "u1",
     type |-> IF tok = "refresh" THEN "refresh" ELSE IF tok = "notype" THEN "" ELSE "access"]
NoPayload == [sub |-> "", type |-> ""]

\* jwt.decode(token, secret, algorithms): the payload or the exception raised
jwt_decode(tok) ==
    IF tok = "malformed" THEN [exc |-> "InvalidTokenError", payload |-> NoPayload]
    ELSE IF tok = "badsig" THEN [exc |-> "InvalidTokenError", payload |-> NoPayload]
    ELSE IF tok = "expired" THEN [exc |-> "ExpiredSignatureError", payload |-> NoPayload]
    ELSE [exc |-> "", payload |-> Payload(tok)]

\* AuthMiddleware._should_skip_auth
_should_skip_auth(req) ==
    \/ req.path \in SKIP_PATHS
    \/ StartsWithSkipPrefix(req.path)
    \/ req.method = "OPTIONS"

\* AuthMiddleware._extract_token: the Authorization header, then the cookie
_extract_token(req) ==
    IF req.bearer # "none" THEN req.bearer
    ELSE IF req.cookie # "none" THEN req.cookie
    ELSE "none"

\* AuthMiddleware._verify_token: the payload, NoPayload for None
_verify_token(tok) ==
    LET d == jwt_decode(tok)
    IN  IF d.exc # "" THEN NoPayload
        ELSE IF d.payload.sub = "" THEN NoPayload
        ELSE d.payload

\* JWTManager.verify_access_token of the auth service: the payload or the
\* HTTPException it raises
verify_access_token(tok) ==
    LET d == jwt_decode(tok)
    IN  IF d.exc = "ExpiredSignatureError"
        THEN [status |-> 401, detail |-> <<"Token has expired">>, payload |-> NoPayload]
        ELSE IF d.exc = "InvalidTokenError"
        THEN [status |-> 401, detail |-> <<"Invalid token">>, payload |-> NoPayload]
        ELSE IF d.payload.type # "access"
        THEN [status |-> 401, detail |-> <<"Invalid token type">>, payload |-> NoPayload]
        ELSE [status |-> 200, detail |-> << >>, payload |-> d.payload]

(* ------------------------ RateLimitMiddleware --------------------------- *)
Min(a, b) == IF a <= b THEN a ELSE b

\* TokenBucket.__init__ at time t. Tokens are counted in units of 1/Window of
\* a token, so that refill_rate (RateLimit tokens per Window clock units) adds
\* RateLimit units per clock unit and one token is Window units.
TokenBucket(capacity, t) == [tokens |-> capacity * Window, last_refill |-> t]

\* TokenBucket.consume(1) at time t: the result and the bucket afterwards
consume(bucket, t) ==
    LET elapsed == t - bucket.last_refill
        refilled == Min(RateLimit * Window, bucket.tokens + elapsed * RateLimit)
    IN  IF refilled >= Window
        THEN [ok |-> TRUE, bucket |-> [tokens |-> refilled - Window, last_refill |-> t]]
        ELSE [ok |-> FALSE, bucket |-> [tokens |-> refilled, last_refill |-> t]]

\* while requests and requests[0] < cutoff: requests.popleft()
RECURSIVE popleft_while(_, _)
popleft_while(requests, cutoff) ==
    IF requests # << >> /\ requests[1] < cutoff
    THEN popleft_while(Tail(requests), cutoff)
    ELSE requests

\* SlidingWindowCounter.add_request at time t: the deque afterwards (the value
\* returned is its length)
add_request(requests, t) == Append(popleft_while(requests, t - Window), t)

\* RateLimitMiddleware._get_client_ip
_get_client_ip(origin) ==
    IF origin.xff # << >> THEN origin.xff[1]
    ELSE IF origin.real_ip # "" THEN origin.real_ip
    ELSE IF origin.host # "" THEN origin.host
    ELSE "unknown"

\* _should_skip_rate_limit that exempts the CORS preflight only
_should_skip_rate_limit_preflight_only(req) == req.method = "OPTIONS"

\* RateLimitMiddleware._should_skip_rate_limit
_should_skip_rate_limit(req) ==
    \/ req.path \in {<<"health">>, <<"metrics">>}
    \/ req.method = "OPTIONS"

\* a dict with key k set to v
SetItem(d, k, v) == [x \in DOMAIN d \cup {k} |-> IF x = k THEN v ELSE d[x]]

\* RateLimitMiddleware._get_or_create_bucket
_get_or_create_bucket(buckets, client_ip, t) ==
    IF client_ip \notin DOMAIN buckets
    THEN SetItem(buckets, client_ip, TokenBucket(RateLimit, t))
    ELSE buckets

\* RateLimitMiddleware._get_or_create_window; a new SlidingWindowCounter has
\* an empty deque
_get_or_create_window(windows, client_ip) ==
    IF client_ip \notin DOMAIN windows
    THEN SetItem(windows, client_ip, << >>)
    ELSE windows

\* _check_rate_limit that admits on the token bucket alone
_check_rate_limit_bucket_only(buckets, windows, client_ip, req, t) ==
    IF _should_skip_rate_limit(req)
    THEN [allowed |-> TRUE, by |-> "skip", buckets |-> buckets, windows |-> windows]
    ELSE LET bs == _get_or_create_bucket(buckets, client_ip, t)
             c == consume(bs[client_ip], t)
             bs2 == SetItem(bs, client_ip, c.bucket)
             ws == _get_or_create_window(windows, client_ip)
             ws2 == SetItem(ws, client_ip, add_request(ws[client_ip], t))
         IN  IF ~c.ok
             THEN [allowed |-> FALSE, by |-> "bucket", buckets |-> bs2, windows |-> windows]
             ELSE [allowed |-> TRUE, by |-> "", buckets |-> bs2, windows |-> ws2]

\* RateLimitMiddleware._check_rate_limit at time t: the result, which check
\* denied, and ip_buckets and ip_windows afterwards
_check_rate_limit(buckets, windows, client_ip, req, t) ==
    IF _should_skip_rate_limit(req)
    THEN [allowed |-> TRUE, by |-> "skip", buckets |-> buckets, windows |-> windows]
    ELSE LET bs == _get_or_create_bucket(buckets, client_ip, t)
             c == consume(bs[client_ip], t)
             bs2 == SetItem(bs, client_ip, c.bucket)
             ws == _get_or_create_window(windows, client_ip)
             ws2 == SetItem(ws, client_ip, add_request(ws[client_ip], t))
         IN  IF ~c.ok
             THEN [allowed |-> FALSE, by |-> "bucket", buckets |-> bs2, windows |-> windows]
             ELSE IF Len(ws2[client_ip]) > RateLimit
             THEN [allowed |-> FALSE, by |-> "window", buckets |-> bs2, windows |-> ws2]
             ELSE [allowed |-> TRUE, by |-> "", buckets |-> bs2, windows |-> ws2]

\* history of one key of a limiter: the times of its first and of its last
\* check, and the times not older than the window at which it was admitted
NoHist == [first |-> -1, last |-> -1, admitted |-> << >>]
HistOf(hist, k) == IF k \in DOMAIN hist THEN hist[k] ELSE NoHist
\* the entries of a history that are not older than w at time t
Recent(times, t, w) == SelectSeq(times, LAMBDA x : x >= t - w)
Checked(hist, k, t, w, allowed) ==
    LET h == HistOf(hist, k)
    IN  SetItem(hist, k,
            [first |-> IF h.first = -1 THEN t ELSE h.first,
             last |-> t,
             admitted |-> IF allowed THEN Append(Recent(h.admitted, t, w), t)
                          ELSE Recent(h.admitted, t, w)])

(* ----------------------------- ServiceProxy ----------------------------- *)
\* the route the router picks for a path and method: the first route that
\* matches both; "405" when only paths match
Route(path, method) ==
    IF method = "OPTIONS" THEN "405"
    ELSE IF path = <<"api", "v1", "auth", "login">> /\ method = "POST" THEN "login"
    ELSE IF path = <<"api", "v1", "auth", "refresh">> /\ method = "POST" THEN "refresh_token"
    ELSE IF path = <<"api", "v1", "auth", "profile">> /\ method = "GET" THEN "get_profile"
    ELSE IF path = <<"health">> THEN (IF method = "GET" THEN "health_check" ELSE "405")
    ELSE "proxy_to_service"

\* the service a handler forwards to
ServiceOf(handler, path) ==
    IF handler = "proxy_to_service" THEN path[1] ELSE "user_service"

\* what session.request(...) comes to: a response with a status, an
\* aiohttp.ClientError (connection refused, reset), or the asyncio.TimeoutError
\* of ClientTimeout(total=settings.request_timeout)
DownstreamStatuses == {200, 400, 401, 404, 500, 503}
Outcomes == [kind : {"response"}, status : DownstreamStatuses]
              \cup {[kind |-> "ClientError", status |-> 0],
                    [kind |-> "TimeoutError", status |-> 0]}
NoOutcome == [kind |-> "none", status |-> 0]
\* a downstream that answers 200
Healthy == [kind |-> "response", status |-> 200]
\* the outcomes of the probes of the health loop: a healthy and a hanging service
Hanging == [kind |-> "TimeoutError", status |-> 0]
\* one outcome for each result health_check_service distinguishes
ProbeOutcomes == {Healthy, [kind |-> "response", status |-> 500],
                  [kind |-> "ClientError", status |-> 0],
                  [kind |-> "TimeoutError", status |-> 0]}

\* the text of a downstream response
ErrorText(status) == <<"downstream body", status>>

Raised(cls, status, detail) == [exc |-> cls, status |-> status, detail |-> detail]
Returned(body) == [exc |-> "", status |-> 200, detail |-> body]

\* ServiceProxy.forward_request, the body of its try block
forward_request_try(service, o) ==
    IF o.kind = "response"
    THEN IF o.status >= 400
         THEN Raised("HTTPException", o.status,
                     <<"Service returned error", service, ErrorText(o.status)>>)
         ELSE Returned(ErrorText(o.status))
    ELSE Raised(o.kind, 0, << >>)

\* forward_request that refuses a service whose cached health is not healthy
forward_request_health_gated(self, service, o) ==
    IF service \in DOMAIN self._health_status
          /\ self._health_status[service].status # "healthy"
    THEN Raised("HTTPException", 503, <<"Service unavailable", service>>)
    ELSE LET r == forward_request_try(service, o)
         IN  IF r.exc = "" THEN r
             ELSE IF r.exc = "ClientError"
             THEN Raised("HTTPException", 503, <<"Service unavailable", service>>)
             ELSE Raised("HTTPException", 500, <<"Internal service error">>)

\* ServiceProxy.forward_request once the request is sent: the try block and
\* its two except clauses, aiohttp.ClientError first, then Exception; self is
\* the ServiceProxy
forward_request(self, service, o) ==
    LET r == forward_request_try(service, o)
    IN  IF r.exc = "" THEN r
        ELSE IF r.exc = "ClientError"
        THEN Raised("HTTPException", 503, <<"Service unavailable", service>>)
        ELSE Raised("HTTPException", 500, <<"Internal service error">>)

\* ServiceProxy.health_check_service: the result cached for a probe that came
\* to o at time t
health_check_service(o, t) ==
    [status |-> IF o.kind = "response"
                THEN (IF o.status = 200 THEN "healthy" ELSE "unhealthy")
                ELSE IF o.kind = "TimeoutError" THEN "timeout"
                ELSE "error",
     timestamp |-> t]

\* the try/except Exception that the handlers of routers/auth.py wrap around
\* forward_request; proxy_to_service has none
HandlerResult(handler, r) ==
    IF r.exc = "" \/ handler = "proxy_to_service" THEN r
    ELSE IF handler \in {"login", "refresh_token"}
    THEN Raised("HTTPException", 500, <<"Authentication service unavailable">>)
    ELSE Raised("HTTPException", 500, <<"User service unavailable">>)

GwResponse(status, detail) == [status |-> status, detail |-> detail]
NoGwResp == GwResponse(0, << >>)
NoReq == [path |-> << >>, method |-> "", bearer |-> "none", cookie |-> "none",
          origin |-> NoOrigin]
GwRequests == [path : GwPaths, method : GwMethods,
               bearer : GwTokens \cup {"none"}, cookie : GwTokens \cup {"none"},
               origin : Origins]

\* app.state.service_proxy
ServiceProxy == [service_registry |-> SERVICE_REGISTRY, _health_status |-> _health_status]

GwInit ==
    /\ gwPc = "idle"
    /\ gwReq = NoReq
    /\ gwUser = ""
    /\ gwSent = FALSE
    /\ gwOutcome = NoOutcome
    /\ gwResp = NoGwResp
    /\ ip_buckets = << >>
    /\ ip_windows = << >>
    /\ gwHist = << >>
    /\ _health_status = << >>
    /\ hcPos = 0

\* a request arrives
GwReceive(req) ==
    /\ gwPc = "idle"
    /\ gwPc' = "auth"
    /\ gwReq' = req
    /\ gwUser' = ""
    /\ gwSent' = FALSE
    /\ gwOutcome' = NoOutcome
    /\ gwResp' = NoGwResp
    /\ UNCHANGED <<rlVars, hcVars>>
    /\ UNCHANGED exceptGw

\* AuthMiddleware.dispatch up to call_next
GwAuth ==
    /\ gwPc = "auth"
    /\ LET token == _extract_token(gwReq)
           payload == _verify_token(token)
       IN  IF _should_skip_auth(gwReq)
           THEN /\ gwPc' = "ratelimit"
                /\ UNCHANGED <<gwUser, gwResp>>
           ELSE IF token = "none"
           THEN /\ gwPc' = "idle"
                /\ gwResp' = GwResponse(401, <<"Missing authorization token">>)
                /\ UNCHANGED gwUser
           ELSE IF payload = NoPayload
           THEN /\ gwPc' = "idle"
                /\ gwResp' = GwResponse(401, <<"Invalid or expired token">>)
                /\ UNCHANGED gwUser
           ELSE /\ gwPc' = "ratelimit"
                /\ gwUser' = payload.sub
                /\ UNCHANGED gwResp
    /\ UNCHANGED <<gwReq, gwSent, gwOutcome>>
    /\ UNCHANGED <<rlVars, hcVars>>
    /\ UNCHANGED exceptGw

\* RateLimitMiddleware.dispatch up to call_next
GwRateLimit ==
    /\ gwPc = "ratelimit"
    /\ LET client_ip == _get_client_ip(gwReq.origin)
           r == _check_rate_limit(ip_buckets, ip_windows, client_ip, gwReq, now)
       IN  /\ ip_buckets' = r.buckets
           /\ ip_windows' = r.windows
           /\ gwHist' = IF r.by = "skip" THEN gwHist
                        ELSE Checked(gwHist, client_ip, now, Window, r.allowed)
           /\ IF r.allowed
              THEN /\ gwPc' = "route"
                   /\ UNCHANGED gwResp
              ELSE /\ gwPc' = "idle"
                   /\ gwResp' = GwResponse(429, <<"Too Many Requests", r.by>>)
    /\ UNCHANGED <<gwReq, gwUser, gwSent, gwOutcome>>
    /\ UNCHANGED hcVars
    /\ UNCHANGED exceptGw

\* the route handler, up to the moment forward_request sends the request;
\* GET /health runs health_check_all, whose probes come to results
GwRoute(results) ==
    /\ gwPc = "route"
    /\ LET handler == Route(gwReq.path, gwReq.method)
           service == ServiceOf(handler, gwReq.path)
       IN  IF handler = "405"
           THEN /\ gwPc' = "idle"
                /\ gwResp' = GwResponse(405, <<"Method Not Allowed">>)
                /\ UNCHANGED <<gwSent, _health_status>>
           ELSE IF handler = "health_check"
           THEN /\ gwPc' = "idle"
                /\ _health_status' =
                       [s \in SERVICE_REGISTRY |-> health_check_service(results[s], now)]
                /\ gwResp' = GwResponse(200,
                       <<IF \A s \in SERVICE_REGISTRY : results[s] = Healthy
                         THEN "healthy" ELSE "degraded">>)
                /\ UNCHANGED gwSent
           ELSE IF handler = "get_profile" /\ gwUser = ""
           THEN /\ gwPc' = "idle"
                /\ gwResp' = GwResponse(401, <<"Not authenticated">>)
                /\ UNCHANGED <<gwSent, _health_status>>
           ELSE IF service \notin SERVICE_REGISTRY
           THEN /\ gwPc' = "idle"
                /\ gwResp' = GwResponse(404, <<"Service not found", service>>)
                /\ UNCHANGED <<gwSent, _health_status>>
           ELSE /\ gwPc' = "forwarding"
                /\ gwSent' = TRUE
                /\ UNCHANGED <<gwResp, _health_status>>
    /\ UNCHANGED <<gwReq, gwUser, gwOutcome>>
    /\ UNCHANGED <<rlVars, hcPos>>
    /\ UNCHANGED exceptGw

\* the downstream call ends, forward_request and the handler finish
GwReply(o) ==
    /\ gwPc = "forwarding"
    /\ LET handler == Route(gwReq.path, gwReq.method)
           r == HandlerResult(handler,
                    forward_request(ServiceProxy, ServiceOf(handler, gwReq.path), o))
       IN  gwResp' = GwResponse(r.status, r.detail)
    /\ gwOutcome' = o
    /\ gwPc' = "idle"
    /\ UNCHANGED <<gwReq, gwUser, gwSent>>
    /\ UNCHANGED <<rlVars, hcVars>>
    /\ UNCHANGED exceptGw

\* what the downstream call is recorded as when the route raised an exception
\* that is no HTTPException
RouteException == [kind |-> "RouteException", status |-> 0]

\* an exception that leaves the router goes up through the middleware:
\* LoggingMiddleware logs and re-raises it, RateLimitMiddleware has no handler,
\* AuthMiddleware awaits call_next inside its try for every request it did not
\* skip and answers 401 from `except Exception`; past AuthMiddleware it reaches
\* the server-error handler, which answers 500
unhandled_exception(req) ==
    IF _should_skip_auth(req)
    THEN GwResponse(500, <<"Internal Server Error">>)
    ELSE GwResponse(401, <<"Authentication failed">>)

\* the route raises an exception that is no HTTPException after the downstream
\* answer came in (the returned value does not fit the response model)
GwRaise ==
    /\ gwPc = "forwarding"
    /\ gwResp' = unhandled_exception(gwReq)
    /\ gwOutcome' = RouteException
    /\ gwPc' = "idle"
    /\ UNCHANGED <<gwReq, gwUser, gwSent>>
    /\ UNCHANGED <<rlVars, hcVars>>
    /\ UNCHANGED exceptGw

\* periodic_health_check wakes from asyncio.sleep(30) and calls health_check_all
HealthWake ==
    /\ hcPos = 0
    /\ hcPos' = 1
    /\ UNCHANGED <<pipeVars, rlVars, _health_status>>
    /\ UNCHANGED exceptGw

\* health_check_all probes its next service; the probe comes to o
HealthProbe(o) ==
    /\ hcPos > 0
    /\ _health_status' = SetItem(_health_status, ServiceOrder[hcPos],
                                 health_check_service(o, now))
    /\ hcPos' = IF hcPos = Len(ServiceOrder) THEN 0 ELSE hcPos + 1
    /\ UNCHANGED <<pipeVars, rlVars>>
    /\ UNCHANGED exceptGw

\* time passes at the gateway
ClockTick ==
    /\ now < MaxClock
    /\ now' = now + 1
    /\ UNCHANGED <<users, refresh_tokens, parent, pc, local, resp>>
    /\ UNCHANGED exceptAuth

\* the steps of the gateway when it serves the requests of R, downstream calls
\* come to the outcomes of O, and health probes to those of P
GwNext(R, O, P) ==
    \/ \E req \in R : GwReceive(req)
    \/ GwAuth
    \/ GwRateLimit
    \/ \E results \in [SERVICE_REGISTRY -> P] : GwRoute(results)
    \/ \E o \in O : GwReply(o)

(* ------------- the gateway limiter under another configuration ------------ *)
\* 60 s, the period refill_rate is computed for, in the clock units of a
\* gateway that is configured with a window shorter than a minute
SweepMinute == 4
\* settings.rate_limit_period of that gateway: a quarter of a minute
SweepWindow == 1
\* the clients of that gateway
SweepClients == {"ip1", "ip2"}

\* TokenBucket.__init__ at time t, tokens counted in units of 1/minute of a
\* token: refill_rate (capacity / 60 per second) adds capacity units per clock
\* unit whatever the window is
TokenBucketIn(capacity, t, minute) == [tokens |-> capacity * minute, last_refill |-> t]

\* the refill of TokenBucket.consume at time t
Refilled(bucket, t, minute) ==
    Min(RateLimit * minute, bucket.tokens + (t - bucket.last_refill) * RateLimit)

\* TokenBucket.consume(1) at time t
consumeIn(bucket, t, minute) ==
    LET refilled == Refilled(bucket, t, minute)
    IN  IF refilled >= minute
        THEN [ok |-> TRUE, bucket |-> [tokens |-> refilled - minute, last_refill |-> t]]
        ELSE [ok |-> FALSE, bucket |-> [tokens |-> refilled, last_refill |-> t]]

\* SlidingWindowCounter.add_request at time t with window_size
add_requestIn(requests, t, window_size) ==
    Append(popleft_while(requests, t - window_size), t)

\* RateLimitMiddleware._check_rate_limit of a request that is not exempt
_check_rate_limitIn(buckets, windows, client_ip, t, window_size, minute) ==
    LET bs == IF client_ip \notin DOMAIN buckets
              THEN SetItem(buckets, client_ip, TokenBucketIn(RateLimit, t, minute))
              ELSE buckets
        c == consumeIn(bs[client_ip], t, minute)
        bs2 == SetItem(bs, client_ip, c.bucket)
        ws == _get_or_create_window(windows, client_ip)
        ws2 == SetItem(ws, client_ip, add_requestIn(ws[client_ip], t, window_size))
    IN  IF ~c.ok
        THEN [allowed |-> FALSE, by |-> "bucket", buckets |-> bs2, windows |-> windows]
        ELSE IF Len(ws2[client_ip]) > RateLimit
        THEN [allowed |-> FALSE, by |-> "window", buckets |-> bs2, windows |-> ws2]
        ELSE [allowed |-> TRUE, by |-> "", buckets |-> bs2, windows |-> ws2]

\* RateLimitMiddleware.cleanup_old_entries: empty_ips at time t
empty_ips(windows, t, window_size) ==
    {ip \in DOMAIN windows :
        \/ windows[ip] = << >>
        \/ windows[ip][Len(windows[ip])] < t - window_size * 2}

\* a dict without the keys of ks: d.pop(k, None) for each of them
PopAll(d, ks) == [k \in DOMAIN d \ ks |-> d[k]]

\* a request of client_ip that is not exempt goes through the limiter
SweepRequest(client_ip) ==
    /\ LET r == _check_rate_limitIn(ip_buckets, ip_windows, client_ip, now,
                                    SweepWindow, SweepMinute)
       IN  /\ ip_buckets' = r.buckets
           /\ ip_windows' = r.windows
    /\ UNCHANGED <<pipeVars, gwHist, hcVars>>
    /\ UNCHANGED exceptGw

\* RateLimitMiddleware.cleanup_old_entries runs
SweepCleanup ==
    /\ LET gone == empty_ips(ip_windows, now, SweepWindow)
       IN  /\ gone # {}
           /\ ip_windows' = PopAll(ip_windows, gone)
           /\ ip_buckets' = PopAll(ip_buckets, gone)
    /\ UNCHANGED <<pipeVars, gwHist, hcVars>>
    /\ UNCHANGED exceptGw

(* ------------------ the rate limiter of the auth service ---------------- *)
\* the limit of each purpose: check_auth_rate_limit, check_refresh_rate_limit
Purposes == {"auth", "refresh"}
LimitOf(purpose) == IF purpose = "auth" THEN AuthLimit ELSE RefreshLimit

\* the lock `async with self._lock` takes in is_allowed for a key: the one
\* asyncio.Lock that MemoryRateLimiter.__init__ creates
lock_of(key) == "MemoryRateLimiter._lock"

\* MemoryRateLimiter.is_allowed at time t, under its lock: the result and
\* _requests afterwards; reading a missing key of the defaultdict creates it
is_allowed(requests, key, limit, window_seconds, t) ==
    LET q == IF key \in DOMAIN requests THEN requests[key] ELSE << >>
        kept == popleft_while(q, t - window_seconds)
    IN  IF Len(kept) >= limit
        THEN [allowed |-> FALSE, requests |-> SetItem(requests, key, kept)]
        ELSE [allowed |-> TRUE, requests |-> SetItem(requests, key, Append(kept, t))]

\* the key check_rate_limit builds: f"{key_prefix}:{client_ip}"
RateLimitKey(key_prefix, origin) ==
    <<key_prefix, IF origin.host # "" THEN origin.host ELSE "unknown">>

\* deps.get_client_ip
get_client_ip(origin) ==
    IF origin.xff # << >> THEN origin.xff[1]
    ELSE IF origin.real_ip # "" THEN origin.real_ip
    ELSE IF origin.host # "" THEN origin.host
    ELSE "unknown"

\* MemoryRateLimiter.cleanup_old_entries at time t, under its lock
cleanup_old_entries(requests, max_age_seconds, t) ==
    LET kept == [k \in DOMAIN requests |-> popleft_while(requests[k], t - max_age_seconds)]
    IN  [k \in {x \in DOMAIN kept : kept[x] # << >>} |-> kept[k]]

NoLimResp == [purpose |-> "", origin |-> NoOrigin, status |-> 0, detail |-> << >>]

LimInit ==
    /\ _requests = << >>
    /\ limHist = << >>
    /\ limResp = NoLimResp

\* check_rate_limit, the dependency of register, login (purpose "auth") and
\* refresh (purpose "refresh"): it passes, or raises HTTPException(429)
CheckRateLimit(purpose, origin) ==
    LET key == RateLimitKey(purpose, origin)
        r == is_allowed(_requests, key, LimitOf(purpose), Window, now)
    IN  /\ _requests' = r.requests
        /\ limHist' = Checked(limHist, key, now, Window, r.allowed)
        /\ limResp' = [purpose |-> purpose, origin |-> origin,
                       status |-> IF r.allowed THEN 200 ELSE 429,
                       detail |-> IF r.allowed THEN << >>
                                  ELSE <<"Rate limit exceeded", LimitOf(purpose), Window>>]
        /\ UNCHANGED exceptLim

\* GET /healthz of the auth service with the access_token cookie tok, when
\* check_db_connection() returns db_healthy; the route has no dependencies
Healthz(tok, db_healthy) ==
    /\ limResp' = [purpose |-> "healthz", origin |-> NoOrigin, status |-> 200,
                   detail |-> <<IF db_healthy THEN "healthy" ELSE "unhealthy", tok>>]
    /\ UNCHANGED <<_requests, limHist>>
    /\ UNCHANGED exceptLim

\* periodic_cleanup calls rate_limiter.cleanup_old_entries()
LimCleanup ==
    /\ _requests' = cleanup_old_entries(_requests, MaxAge, now)
    /\ _requests' # _requests
    /\ limResp' = NoLimResp
    /\ UNCHANGED limHist
    /\ UNCHANGED exceptLim

\* the steps of the limiter when requests of the purposes of T come from the
\* origins of G
LimNext(T, G) ==
    \/ \E p \in T, g \in G : CheckRateLimit(p, g)
    \/ LimCleanup

(* ------------------------------ the Flask app -------------------------- *)
NoFlResp == [op |-> "none", jti |-> 0, status |-> 0]

FlaskInit ==
    /\ flTokens = << >>
    /\ blacklisted_tokens = {}
    /\ flLoggedOut = {}
    /\ flResp = NoFlResp

\* check_if_token_revoked, the token_in_blocklist_loader
check_if_token_revoked(blacklist, jti) == jti \in blacklist

\* @jwt_required() on the access token jti at time t: 200 when the handler is
\* entered, 401 when flask_jwt_extended answers for an expired token or for one
\* that the blocklist loader reports
jwt_required(tokens, blacklist, jti, t) ==
    IF t >= tokens[jti].exp THEN 401
    ELSE IF check_if_token_revoked(blacklist, jti) THEN 401
    ELSE 200

\* POST /api/auth/login of a registered user with the right password
FlaskLogin ==
    /\ Len(flTokens) < MaxFlaskTokens
    /\ flTokens' = Append(flTokens, [exp |-> now + AccessTTL])
    /\ flResp' = [op |-> "login", jti |-> Len(flTokens) + 1, status |-> 200]
    /\ UNCHANGED <<blacklisted_tokens, flLoggedOut, now>>
    /\ UNCHANGED exceptFlask

\* POST /api/auth/logout with the access token jti
FlaskLogout(jti) ==
    /\ jti \in 1..Len(flTokens)
    /\ LET status == jwt_required(flTokens, blacklisted_tokens, jti, now)
       IN  /\ flResp' = [op |-> "logout", jti |-> jti, status |-> status]
           /\ blacklisted_tokens' = IF status = 200 THEN blacklisted_tokens \cup {jti}
                                    ELSE blacklisted_tokens
           /\ flLoggedOut' = IF status = 200 THEN flLoggedOut \cup {jti} ELSE flLoggedOut
    /\ UNCHANGED <<flTokens, now>>
    /\ UNCHANGED exceptFlask

\* GET /api/me with the access token jti, of a user that exists
FlaskMe(jti) ==
    /\ jti \in 1..Len(flTokens)
    /\ flResp' = [op |-> "me", jti |-> jti,
                  status |-> jwt_required(flTokens, blacklisted_tokens, jti, now)]
    /\ UNCHANGED <<flTokens, blacklisted_tokens, flLoggedOut, now>>
    /\ UNCHANGED exceptFlask

\* the process is started again: the module runs blacklisted_tokens = set()
FlaskRestart ==
    /\ blacklisted_tokens # {}
    /\ blacklisted_tokens' = {}
    /\ flResp' = NoFlResp
    /\ UNCHANGED <<flTokens, flLoggedOut, now>>
    /\ UNCHANGED exceptFlask

FlaskNext ==
    \/ FlaskLogin
    \/ \E jti \in 1..MaxFlaskTokens : FlaskLogout(jti)
    \/ \E jti \in 1..MaxFlaskTokens : FlaskMe(jti)
    \/ FlaskRestart

(* ------------------------------ GET /api/me ----------------------------- *)
\* the user a sub claim names: int(payload.get("sub")), 0 for the TypeError
\* that int(None) raises
UserIdOf(sub) == IF sub = "u1" THEN 1 ELSE 0

\* deps.get_current_user with the cookie tok ("none" when it is missing), as
\* the exception handlers of middleware.py answer it
get_current_user(us, tok) ==
    IF tok = "none"
    THEN [status |-> 401, detail |-> "Authentication required"]
    ELSE LET v == verify_access_token(tok)
         IN  IF v.status # 200 THEN [status |-> v.status, detail |-> v.detail[1]]
             ELSE IF UserIdOf(v.payload.sub) = 0
             THEN [status |-> 500, detail |-> "Internal server error"]
             ELSE IF UserIdOf(v.payload.sub) \notin 1..Len(us)
             THEN [status |-> 401, detail |-> "User not found"]
             ELSE [status |-> 200, detail |-> ""]

\* GET /api/me with the access_token cookie tok
Me(w, tok) ==
    /\ pc[w] = "idle"
    /\ LET r == get_current_user(users, tok)
       IN  resp' = Response("me", r.status, r.detail, 0, NoAccess, 0, tok)
    /\ UNCHANGED <<now, users, refresh_tokens, parent, pc, local>>
    /\ UNCHANGED exceptAuth

(* --------------------------- specifications ---------------------------- *)
(* ------------------- background tasks and shutdown ------------------- *)
\* the task each lifespan creates
Tasks == {"periodic_health_check", "periodic_cleanup"}

TasksInit ==
    /\ hcBody = FALSE
    /\ cuPos = 0
    /\ cancelling = {}
    /\ finished = {}
    /\ lifespan = [k \in Tasks |-> "serving"]

\* a task that is neither cancelled nor over takes its next step
Runs(task) == task \notin cancelling \cup finished

\* health_check_all goes on to the service after the one at position k, and
\* periodic_health_check back to asyncio.sleep(30) after the last one
NextProbe(k) == IF k = Len(ServiceOrder) THEN 0 ELSE k + 1

\* periodic_health_check: asyncio.sleep(30) ends, health_check_all begins
HcWake ==
    /\ Runs("periodic_health_check")
    /\ hcPos = 0
    /\ hcPos' = 1
    /\ UNCHANGED <<_health_status, _requests, bgVars>>
    /\ UNCHANGED exceptTasks

\* health_check_service: session.get comes to o; a 200 goes on to await
\* response.json(), every other outcome is stored as the result
HcResponse(o) ==
    /\ Runs("periodic_health_check")
    /\ hcPos > 0
    /\ ~hcBody
    /\ IF o = Healthy
       THEN /\ hcBody' = TRUE
            /\ UNCHANGED <<_health_status, hcPos>>
       ELSE /\ _health_status' = SetItem(_health_status, ServiceOrder[hcPos],
                                         health_check_service(o, now))
            /\ hcPos' = NextProbe(hcPos)
            /\ UNCHANGED hcBody
    /\ UNCHANGED <<_requests, cuPos, cancelling, finished, lifespan>>
    /\ UNCHANGED exceptTasks

\* health_check_service: response.json() ends, parsed or not, and the healthy
\* result is stored
HcBody ==
    /\ Runs("periodic_health_check")
    /\ hcPos > 0
    /\ hcBody
    /\ _health_status' = SetItem(_health_status, ServiceOrder[hcPos],
                                 health_check_service(Healthy, now))
    /\ hcPos' = NextProbe(hcPos)
    /\ hcBody' = FALSE
    /\ UNCHANGED <<_requests, cuPos, cancelling, finished, lifespan>>
    /\ UNCHANGED exceptTasks

\* periodic_cleanup: asyncio.sleep(3600) ends, cleanup_old_entries is called
\* and awaits the lock
CleanupWake ==
    /\ Runs("periodic_cleanup")
    /\ cuPos = 0
    /\ cuPos' = 1
    /\ UNCHANGED <<_health_status, hcPos, _requests, hcBody, cancelling, finished, lifespan>>
    /\ UNCHANGED exceptTasks

\* cleanup_old_entries under the lock; it awaits nothing once it holds it
CleanupPass ==
    /\ Runs("periodic_cleanup")
    /\ cuPos = 1
    /\ cuPos' = 0
    /\ _requests' = cleanup_old_entries(_requests, MaxAge, now)
    /\ UNCHANGED <<_health_status, hcPos, hcBody, cancelling, finished, lifespan>>
    /\ UNCHANGED exceptTasks

\* lifespan after yield: task.cancel(), then await task
Shutdown(task) ==
    /\ lifespan[task] = "serving"
    /\ lifespan' = [lifespan EXCEPT ![task] = "awaiting"]
    /\ cancelling' = IF task \in finished THEN cancelling ELSE cancelling \cup {task}
    /\ UNCHANGED <<_health_status, hcPos, _requests, hcBody, cuPos, finished>>
    /\ UNCHANGED exceptTasks

\* CancelledError is raised at the await the task is suspended in.  The loops
\* catch it and break; `except Exception` and `except asyncio.TimeoutError` let
\* it through; the bare `except:` around response.json() catches it, so
\* health_check_service stores its result and the loop goes on
Cancelled(task) ==
    /\ task \in cancelling
    /\ cancelling' = cancelling \ {task}
    /\ IF task = "periodic_health_check" /\ hcPos > 0 /\ hcBody
       THEN /\ _health_status' = SetItem(_health_status, ServiceOrder[hcPos],
                                         health_check_service(Healthy, now))
            /\ hcPos' = NextProbe(hcPos)
            /\ hcBody' = FALSE
            /\ UNCHANGED finished
       ELSE /\ finished' = finished \cup {task}
            /\ UNCHANGED <<_health_status, hcPos, hcBody>>
    /\ UNCHANGED <<_requests, cuPos, lifespan>>
    /\ UNCHANGED exceptTasks

\* lifespan: await task returns, the lifespan ends
LifespanExit(task) ==
    /\ lifespan[task] = "awaiting"
    /\ task \in finished
    /\ lifespan' = [lifespan EXCEPT ![task] = "closed"]
    /\ UNCHANGED <<_health_status, hcPos, _requests, hcBody, cuPos, cancelling, finished>>
    /\ UNCHANGED exceptTasks

TaskStep ==
    \/ HcWake
    \/ \E o \in {Healthy, Hanging} : HcResponse(o)
    \/ HcBody
    \/ CleanupWake
    \/ CleanupPass
    \/ \E task \in Tasks : Cancelled(task)
    \/ \E task \in Tasks : LifespanExit(task)

Init == AuthInit /\ GwInit /\ LimInit /\ FlaskInit /\ TasksInit

\* a pool of workers serving the sessions of one account
Spec == Init /\ [][AuthNext(Workers, {"a@x", "A@x"})]_vars

\* one worker and one account, with the clock running
SpecClock == Init /\ [][Tick \/ AuthNext({1}, {"a@x", "A@x"})]_vars

\* one worker serving several accounts
SpecAccounts ==
    Init /\ [][AuthNext({1}, RawEmails) \/ \E tok \in GwTokens \cup {"none"} : Me(1, tok)]_vars

\* the gateway; every downstream call ends (ClientTimeout bounds it)
\* the requests of one client
OneClient == {req \in GwRequests : req.origin = DirectOrigin
                                     /\ req.cookie \in {"none", "access", "badsig"}}
SpecGateway ==
    /\ Init
    /\ [][GwNext(OneClient, Outcomes, {Healthy})]_vars
    /\ WF_vars(\E o \in Outcomes : GwReply(o))

\* the login and refresh requests without a token that come from the origins of G
LoginPath == <<"api", "v1", "auth", "login">>
RefreshPath == <<"api", "v1", "auth", "refresh">>
Unauthenticated(G) ==
    {req \in GwRequests :
        /\ req.path \in {LoginPath, RefreshPath}
        /\ req.method = "POST"
        /\ req.bearer = "none"
        /\ req.cookie = "none"
        /\ req.origin \in G}
SpecRateLimit ==
    /\ Init
    /\ [][ClockTick \/ GwNext(Unauthenticated({DirectOrigin, ProxiedOrigin}), {Healthy}, {Healthy})]_vars
    /\ WF_vars(\E o \in Outcomes : GwReply(o))

\* the rate limiter of the auth service
SpecLimiter == Init /\ [][ClockTick \/ LimNext(Purposes, Origins)]_vars

\* the login requests of one client, through the limiter of the gateway and
\* through the limiter of the auth service, on one clock
SpecAdmission ==
    /\ Init
    /\ [][\/ ClockTick
          \/ GwNext({req \in Unauthenticated({DirectOrigin}) : req.path = LoginPath},
                    {Healthy}, {Healthy})
          \/ LimNext({"auth"}, {DirectOrigin})]_vars
    /\ WF_vars(\E o \in Outcomes : GwReply(o))

\* the requests of one client to the health endpoint and to login
HealthPath == <<"health">>
HealthClient ==
    {req \in GwRequests : /\ req.path \in {HealthPath, LoginPath}
                          /\ req.bearer \in {"none", "access", "badsig"}
                          /\ req.cookie = "none"
                          /\ req.origin = DirectOrigin}
\* the health endpoints of the gateway and of the auth service, next to login
\* requests that use up the budgets of both limiters
SpecHealth ==
    /\ Init
    /\ [][\/ GwNext(HealthClient, {Healthy}, {Healthy})
          \/ CheckRateLimit("auth", DirectOrigin)
          \/ \E tok \in {"none", "badsig"}, db_healthy \in BOOLEAN : Healthz(tok, db_healthy)]_vars
    /\ WF_vars(\E o \in Outcomes : GwReply(o))

\* the requests of one signed-in client to a service, to the profile and to
\* the health endpoint
ForwardingClient ==
    {req \in GwRequests : /\ req.path \in {HealthPath, <<"data_service", "items">>,
                                           <<"api", "v1", "auth", "profile">>}
                          /\ req.method = "GET"
                          /\ req.bearer = "access"
                          /\ req.cookie = "none"
                          /\ req.origin = DirectOrigin}
\* the gateway forwarding while periodic_health_check probes the services
SpecProbes ==
    /\ Init
    /\ [][\/ GwNext(ForwardingClient, Outcomes, {Healthy, Hanging})
          \/ HealthWake
          \/ \E o \in {Healthy, Hanging} : HealthProbe(o)]_vars
    /\ WF_vars(\E o \in Outcomes : GwReply(o))

\* the workers serving registrations that interleave
SpecRegister ==
    Init /\ [][\/ \E w \in Workers, e \in RawEmails, p \in Passwords : RegisterBegin(w, e, p)
              \/ \E w \in Workers, ok \in BOOLEAN : RegisterCommit(w, ok)]_vars

\* the two services running their background tasks until they are shut down;
\* the event loop runs every task that can run
SpecShutdown ==
    /\ Init
    /\ [][(\E task \in Tasks : Shutdown(task)) \/ TaskStep]_vars
    /\ WF_vars(TaskStep)
    /\ WF_vars(HcBody)
    /\ \A task \in Tasks : WF_vars(Cancelled(task)) /\ WF_vars(LifespanExit(task))

\* the limiter of a gateway whose window is a quarter of a minute, with the
\* idle sweep running
SpecSweep ==
    Init /\ [][\/ ClockTick
              \/ \E client_ip \in SweepClients : SweepRequest(client_ip)
              \/ SweepCleanup]_vars

\* the gateway under traffic that does not stop: requests keep arriving and
\* every request that arrived is served
SpecTraffic ==
    /\ Init
    /\ [][ClockTick \/ GwNext(Unauthenticated({DirectOrigin, ProxiedOrigin}), {Healthy}, {Healthy})]_vars
    /\ WF_vars(GwNext(Unauthenticated({DirectOrigin, ProxiedOrigin}), {Healthy}, {Healthy}))

\* the gateway when routes can fail with exceptions of their own
SpecFaults ==
    Init /\ [][GwNext(OneClient, {Healthy}, {Healthy}) \/ GwRaise]_vars

\* the Flask app with the clock running
SpecFlask == Init /\ [][ClockTick \/ FlaskNext]_vars

(* ------------------------------- claims -------------------------------- *)
\* the plaintexts a refresh token can be
Plaintexts == 1..ForgedToken
\* the row that stores plaintext t, 0 when there is none
RowOf(db, t) == First({i \in 1..Len(db) : db[i].token_hash = hash_token(t)})
\* a rotation of plaintext t has completed
Rotated(t) == \E i \in 1..Len(parent) : parent[i] = t
\* t was issued by login, is not revoked, and is presented before it expires
FreshLoginToken(t) ==
    LET i == RowOf(refresh_tokens, t)
    IN  /\ i # 0
        /\ parent[i] = 0
        /\ refresh_tokens[i].revoked_at = NULL
        /\ now < refresh_tokens[i].expires_at

C2_RevokedStaysRevoked ==
    [][ /\ Len(refresh_tokens') >= Len(refresh_tokens)
        /\ \A i \in 1..Len(refresh_tokens) :
              refresh_tokens[i].revoked_at # NULL =>
                  /\ refresh_tokens'[i].revoked_at # NULL
                  /\ \A t \in Plaintexts :
                        verify_refresh_token(refresh_tokens', t, now') # i
      ]_vars

\* C2 witness: a revoked token was presented to refresh and rejected while
\* another worker is in the middle of a handler
C2_Witness ==
    /\ resp.op = "refresh"
    /\ resp.status = 401
    /\ RowOf(refresh_tokens, resp.presented) # 0
    /\ refresh_tokens[RowOf(refresh_tokens, resp.presented)].revoked_at # NULL
    /\ \E w \in Workers : pc[w] # "idle"

\* C3: rotation is all-or-nothing: when a refresh ends without success after
\* the old row was revoked (the insert failed, or the worker crashed), and no
\* other worker is using the token, the old token still verifies.
C3_RotationAllOrNothing ==
    [][ \A w \in Workers :
          (/\ pc[w] = "refresh_revoked"
           /\ pc'[w] = "idle"
           /\ resp'.status # 200
           /\ \A v \in Workers \ {w} : local[v].token # local[w].token)
          => verify_refresh_token(refresh_tokens', local[w].token, now') # 0
      ]_vars

\* row i is what verify_refresh_token returns for some plaintext
ValidRow(i) == \E t \in Plaintexts : verify_refresh_token(refresh_tokens, t, now) = i

\* C4: no two valid refresh tokens descend from the same presented token.
C4_RotatedAtMostOnce ==
    \A i, j \in 1..Len(refresh_tokens) :
        (i # j /\ parent[i] # 0 /\ parent[i] = parent[j]) =>
            ~(ValidRow(i) /\ ValidRow(j))

\* C5: verify_refresh_token returns a record exactly when a row with the
\* token's hash exists, is not revoked and now < expires_at (strict).
C5_ValidIffStrictlyBeforeExpiry ==
    \A t \in Plaintexts :
        (verify_refresh_token(refresh_tokens, t, now) # 0)
        <=> (\E i \in 1..Len(refresh_tokens) :
                /\ refresh_tokens[i].token_hash = hash_token(t)
                /\ refresh_tokens[i].revoked_at = NULL
                /\ now < refresh_tokens[i].expires_at)

\* C6: after revoke_all_user_tokens(u), verify_refresh_token returns None for
\* every token of u, and what it returns for every other token is unchanged.
C6_RevokeAllRevokesExactlyTheUsers ==
    [][ resp'.op = "revoke_all" =>
          \A t \in Plaintexts :
              LET i == RowOf(refresh_tokens, t)
              IN  IF i # 0 /\ refresh_tokens[i].user_id = resp'.presented
                  THEN verify_refresh_token(refresh_tokens', t, now') = 0
                  ELSE verify_refresh_token(refresh_tokens', t, now')
                          = verify_refresh_token(refresh_tokens, t, now)
      ]_vars

\* C6 witness: after a revoke-all for one user, a token of that user is
\* revoked and a token of another user still verifies
C6_Witness ==
    /\ resp.op = "revoke_all"
    /\ \E i, j \in 1..Len(refresh_tokens) :
          /\ refresh_tokens[i].user_id = resp.presented
          /\ refresh_tokens[i].revoked_at # NULL
          /\ refresh_tokens[j].user_id # resp.presented
          /\ ValidRow(j)

\* C7: login answers an unknown e-mail and a wrong password alike: a password
\* comparison was made, the response is 401 "Invalid credentials", and no
\* token is issued or persisted.
C7_LoginFailuresAlike ==
    [][ (resp'.op = "login" /\ resp'.branch \in {"no_user", "bad_password"}) =>
          /\ resp'.status = 401
          /\ resp'.detail = "Invalid credentials"
          /\ resp'.compared # << >>
          /\ resp'.access = NoAccess
          /\ resp'.refresh = 0
          /\ refresh_tokens' = refresh_tokens
      ]_vars

\* C7 witness: a login for an unknown e-mail failed while an account exists
C7_Witness ==
    /\ resp.op = "login"
    /\ resp.branch = "no_user"
    /\ Len(users) > 0

\* C8: a downstream answer of 400 or above reaches the client with the same
\* status and the downstream message.
C8_DownstreamErrorPropagated ==
    (gwPc = "idle" /\ gwOutcome.kind = "response" /\ gwOutcome.status >= 400) =>
        /\ gwResp.status = gwOutcome.status
        /\ gwResp.detail[Len(gwResp.detail)] = ErrorText(gwOutcome.status)

\* C9: through proxy_to_service, forward_request answers 404 and sends nothing
\* when the service is not registered, and 503 when the service cannot be
\* reached or the request timeout expires.
C9_NotFoundAndUnavailable ==
    (gwPc = "idle" /\ Route(gwReq.path, gwReq.method) = "proxy_to_service"
        /\ gwResp.status \notin {0, 401, 429}) =>
        /\ gwReq.path[1] \notin SERVICE_REGISTRY => (gwResp.status = 404 /\ ~gwSent)
        /\ gwOutcome.kind \in {"ClientError", "TimeoutError"} => gwResp.status = 503

\* C10: a request passes the Auth Gate with a token only when the token's
\* signature verifies, it is unexpired and its type claim is "access".
C10_OnlyAccessTokensPass ==
    (gwPc \in {"ratelimit", "route", "forwarding"} /\ ~_should_skip_auth(gwReq)) =>
        LET d == jwt_decode(_extract_token(gwReq))
        IN  d.exc = "" /\ d.payload.type = "access"

\* the request carries a token whose signature verifies, that is unexpired and
\* whose type claim is "access"
CarriesVerifiedAccessToken(req) ==
    LET tok == _extract_token(req)
        d == jwt_decode(tok)
    IN  tok # "none" /\ d.exc = "" /\ d.payload.type = "access" /\ d.payload.sub # ""

\* C11: a request is handed to a route handler without a verified access token
\* only if its path is on the skip-list or its method is OPTIONS; every other
\* request without a token, or with a token that fails verification, is
\* answered 401 by the Auth Gate.
C11_HandlerNeedsVerifiedToken ==
    /\ (gwPc \in {"route", "forwarding"}) =>
          \/ gwReq.path \in SKIP_PATHS
          \/ gwReq.method = "OPTIONS"
          \/ CarriesVerifiedAccessToken(gwReq)
    /\ (/\ gwPc = "idle"
        /\ gwReq # NoReq
        /\ gwReq.path \notin SKIP_PATHS
        /\ gwReq.method # "OPTIONS"
        /\ ~CarriesVerifiedAccessToken(gwReq)) =>
          gwResp.status = 401

\* the access tokens that fail verification: expired, malformed, wrong
\* signature, wrong type
FailingAccessTokens == {"expired", "malformed", "badsig", "refresh", "notype"}

\* C12: GET /api/me answers every kind of access-token verification failure
\* with the same 401 response: the status and the detail are those of every
\* other kind of failure.
C12_MeFailuresAlike ==
    [][ (resp'.op = "me" /\ resp'.branch \in FailingAccessTokens) =>
          \A tok \in FailingAccessTokens :
              /\ resp'.status = 401
              /\ get_current_user(users', tok).status = resp'.status
              /\ get_current_user(users', tok).detail = resp'.detail
      ]_vars

\* what the caller receives of a response: the status, the detail and the cookies
CallerView(r) ==
    [status |-> r.status, detail |-> r.detail, access |-> r.access, refresh |-> r.refresh]

\* C13: verify_refresh_token returns None for a token without a row, for a
\* revoked one and for an expired one, and POST /api/auth/refresh answers the
\* three with the same 401 status, the same detail and no cookies.
C13_RefreshRefusalsAlike ==
    [][ (resp'.op = "refresh" /\ resp'.branch \in RefusalReasons) =>
          /\ resp'.branch = LoggedReason(refresh_tokens, resp'.presented, now)
          /\ verify_refresh_token(refresh_tokens, resp'.presented, now) = 0
          /\ resp'.status = 401
          /\ \A reason \in RefusalReasons :
                CallerView(resp') = CallerView(RefreshFailure(resp'.presented, reason))
      ]_vars

\* C13 witness: an expired token was presented to refresh and refused
C13_Witness ==
    /\ resp.op = "refresh"
    /\ resp.branch = "expired"
    /\ resp.status = 401

\* C14: POST /api/auth/logout answers 200 whatever the state of the refresh
\* token presented (valid, already revoked, never valid) and never 500, and
\* once a logout has answered, the token presented does not verify any more.
C14_LogoutIdempotent ==
    [][ (resp'.op = "logout" /\ resp'.status # 0) =>
          /\ resp'.status = 200
          /\ resp'.presented # 0 =>
                verify_refresh_token(refresh_tokens', resp'.presented, now') = 0
      ]_vars

\* the rate limiter of the gateway takes a step
GwLimiterStep == gwPc = "ratelimit" /\ gwPc' # "ratelimit"
\* the rate limiter of the auth service checks a request
LimiterStep == limResp'.purpose \in Purposes /\ limVars' # limVars

\* a check at time t of a key with history h and the given limit, answered
\* admitted: in a burst that started at t the first limit checks are admitted
\* and the following ones denied, and a check that comes Window or more after
\* the key's last check is admitted
BurstThenWait(h, limit, t, admitted) ==
    /\ h.first \in {-1, t} => (admitted <=> Len(h.admitted) < limit)
    /\ (h.last # -1 /\ t >= h.last + Window) => admitted

\* C15: for one client key, the first limit requests sent at one instant are
\* admitted, the next one at that instant is denied with 429, and a request
\* sent after waiting the window with no request in between is admitted
\* again, by MemoryRateLimiter.is_allowed and by the gateway's bucket and
\* window.
C15_BurstDeniedThenAdmittedAfterWindow ==
    [][ /\ (GwLimiterStep /\ ~_should_skip_rate_limit(gwReq)) =>
              /\ BurstThenWait(HistOf(gwHist, _get_client_ip(gwReq.origin)), RateLimit,
                               now, gwPc' = "route")
              /\ gwPc' # "route" => gwResp'.status = 429
        /\ LimiterStep =>
              BurstThenWait(HistOf(limHist, RateLimitKey(limResp'.purpose, limResp'.origin)),
                            LimitOf(limResp'.purpose), now, limResp'.status = 200)
      ]_vars

\* the bucket and the window of a client as _check_rate_limit finds them
BucketOf(client_ip) == _get_or_create_bucket(ip_buckets, client_ip, now)[client_ip]
WindowOf(client_ip) == _get_or_create_window(ip_windows, client_ip)[client_ip]

\* C16: the gateway admits a request only if the token bucket has a token for
\* it and the sliding window, the request included, holds at most the limit;
\* and at every check of a key by either limiter, under every interleaving of
\* requests, sweeps and clock ticks, the requests of that key admitted within
\* the last window are at most the limit.
C16_AdmittedWithinLimit ==
    [][ /\ (GwLimiterStep /\ ~_should_skip_rate_limit(gwReq)) =>
              LET k == _get_client_ip(gwReq.origin)
              IN  /\ gwPc' = "route" =>
                        /\ consume(BucketOf(k), now).ok
                        /\ Len(add_request(WindowOf(k), now)) <= RateLimit
                  /\ Len(gwHist'[k].admitted) <= RateLimit
        /\ LimiterStep =>
              Len(limHist'[RateLimitKey(limResp'.purpose, limResp'.origin)].admitted)
                  <= LimitOf(limResp'.purpose)
      ]_vars

\* C16 witness: after time has passed, the gateway denied a request by the
\* sliding window although its bucket had a token, and the limiter of the auth
\* service denied a request of a key that had been admitted up to its limit
C16_Witness ==
    /\ now > 0
    /\ gwResp.status = 429
    /\ gwResp.detail = <<"Too Many Requests", "window">>
    /\ limResp.status = 429
    /\ Len(limHist[RateLimitKey(limResp.purpose, limResp.origin)].admitted)
          = LimitOf(limResp.purpose)

\* the step of the gateway's limiter took a token from the bucket of client_ip
TookToken(client_ip) ==
    LET c == consume(BucketOf(client_ip), now)
    IN  c.ok /\ ip_buckets'[client_ip] = c.bucket
\* the step of the gateway's limiter added an entry to the window of client_ip
AddedEntry(client_ip) ==
    /\ client_ip \in DOMAIN ip_windows'
    /\ ip_windows'[client_ip] = add_request(WindowOf(client_ip), now)

\* C17: when the gateway's rate limiter denies a request, it has not both
\* taken a token from the key's bucket and added an entry to the key's
\* sliding window.
C17_DenialChargesOnce ==
    [][ (GwLimiterStep /\ gwResp'.status = 429) =>
          ~(TookToken(_get_client_ip(gwReq.origin)) /\ AddedEntry(_get_client_ip(gwReq.origin)))
      ]_vars

\* the client address the key is to be built from: the first entry of the
\* forwarded-for chain when there is one, the peer address otherwise
ForwardedClient(origin) == IF origin.xff # << >> THEN origin.xff[1] ELSE origin.host
\* the key a request is to be limited under: its purpose and its client
PurposeKey(purpose, origin) == <<purpose, ForwardedClient(origin)>>

\* the gateway's decision for a request of the given path and origin
GwDecision(buckets, windows, path, origin) ==
    _check_rate_limit(buckets, windows, _get_client_ip(origin),
                      [gwReq EXCEPT !.path = path, !.origin = origin], now).allowed
\* the decision of the auth service's limiter for a request of the given
\* purpose and origin
LimDecision(requests, purpose, origin) ==
    is_allowed(requests, RateLimitKey(purpose, origin), LimitOf(purpose), Window, now).allowed

\* C18: a limiter check of one request never changes the decision for a
\* request whose purpose or client address (the first forwarded-for entry when
\* there is one) differs: login and refresh of one address have separate
\* budgets, and so have two clients.
C18_KeysIndependent ==
    [][ /\ LimiterStep =>
              \A p \in Purposes, g \in Origins :
                  PurposeKey(p, g) # PurposeKey(limResp'.purpose, limResp'.origin) =>
                      LimDecision(_requests', p, g) = LimDecision(_requests, p, g)
        /\ GwLimiterStep =>
              \A path \in {LoginPath, RefreshPath}, g \in Origins :
                  PurposeKey(path, g) # PurposeKey(gwReq.path, gwReq.origin) =>
                      GwDecision(ip_buckets', ip_windows', path, g)
                          = GwDecision(ip_buckets, ip_windows, path, g)
      ]_vars

\* the budget of a client at the gateway is used up: a request of it that is
\* not exempt would be denied
GwExhausted(client_ip) ==
    ~_check_rate_limit(ip_buckets, ip_windows, client_ip,
                       [gwReq EXCEPT !.path = LoginPath, !.method = "POST"], now).allowed

\* C19: a request to the health endpoint, with or without a token and
\* whatever the state of the rate-limit store, is answered neither 401 by the
\* Auth Gate nor 429 by the rate limiter, GET is answered 200, and handling it
\* leaves the buckets, the windows and the request queues of every key as they
\* were.
C19_HealthNeverGatedNorLimited ==
    [][ /\ gwReq'.path = HealthPath =>
              /\ gwResp'.status \notin {401, 429}
              /\ (gwPc' = "idle" /\ gwReq'.method = "GET") => gwResp'.status = 200
              /\ ip_buckets' = ip_buckets
              /\ ip_windows' = ip_windows
        /\ (limResp'.purpose = "healthz" /\ limResp' # limResp) =>
              /\ limResp'.status = 200
              /\ _requests' = _requests
      ]_vars

\* C19 witness: GET /health with a token that does not verify was answered
\* 200 while the budget of its client was used up, and /healthz was answered
\* while the budget of its client at the auth service was used up
C19_Witness ==
    /\ gwPc = "idle"
    /\ gwReq.path = HealthPath
    /\ gwReq.method = "GET"
    /\ gwReq.bearer = "badsig"
    /\ gwResp.status = 200
    /\ GwExhausted(_get_client_ip(gwReq.origin))
    /\ limResp.purpose = "healthz"
    /\ ~LimDecision(_requests, "auth", DirectOrigin)

\* every content the health cache can have for a service: no entry, or an
\* entry with any status health_check_service stores, of any age
HealthStores(service) ==
    {<< >>} \cup
    {[s \in {service} |-> [status |-> health_check_service(o, 0).status, timestamp |-> t]] :
        o \in ProbeOutcomes, t \in 0..MaxClock}

\* C20: what forward_request answers is the same whatever _health_status
\* holds for the target service (healthy, unhealthy, timeout, error, stale or
\* absent), and a forwarded request can always complete, also while a round
\* of health probes is under way.
C20_ForwardingIgnoresHealth ==
    /\ [](gwPc = "forwarding" => ENABLED (\E o \in Outcomes : GwReply(o)))
    /\ [][ (gwPc = "forwarding" /\ gwPc' = "idle") =>
             LET handler == Route(gwReq.path, gwReq.method)
                 service == ServiceOf(handler, gwReq.path)
             IN  \A h \in HealthStores(service) :
                     LET r == HandlerResult(handler,
                                  forward_request([ServiceProxy EXCEPT !._health_status = h],
                                                  service, gwOutcome'))
                     IN  gwResp' = GwResponse(r.status, r.detail)
         ]_vars

\* C20 witness: a request to data_service was forwarded and answered 200 while
\* the cached health of data_service is "timeout" and a round of probes is
\* under way
C20_Witness ==
    /\ gwPc = "idle"
    /\ gwSent
    /\ gwReq.path = <<"data_service", "items">>
    /\ gwOutcome = Healthy
    /\ gwResp.status = 200
    /\ "data_service" \in DOMAIN _health_status
    /\ _health_status["data_service"].status = "timeout"
    /\ hcPos > 1

\* the ids a user can have
UserIds == 1..Cardinality(RawEmails)

\* C21: for every user id u and every plaintext t that no row stores,
\* create_refresh_token_record(u, t) followed by verify_refresh_token(t)
\* before the expiry, with no revocation in between, returns a record whose
\* user_id is u; the token a login issues verifies to the user that logged in.
C21_CreateThenVerifyRoundTrip ==
    /\ [](\A u \in UserIds, t \in Plaintexts :
            RowOf(refresh_tokens, t) = 0 =>
                LET db == create_refresh_token_record(refresh_tokens, u, t, now)
                IN  \A later \in now..(now + RefreshTTL - 1) :
                        /\ verify_refresh_token(db, t, later) # 0
                        /\ db[verify_refresh_token(db, t, later)].user_id = u)
    /\ [][ (resp'.op = "login" /\ resp'.status = 200) =>
             /\ RowOf(refresh_tokens, resp'.refresh) = 0
             /\ verify_refresh_token(refresh_tokens', resp'.refresh, now') # 0
             /\ refresh_tokens'[verify_refresh_token(refresh_tokens', resp'.refresh, now')].user_id
                   = resp'.access.sub
         ]_vars

\* C21 witness: a login stored a token next to a revoked row of an earlier
\* session, and the new token verifies to the user that logged in
C21_Witness ==
    /\ resp.op = "login"
    /\ resp.status = 200
    /\ \E i \in 1..Len(refresh_tokens) : refresh_tokens[i].revoked_at # NULL
    /\ verify_refresh_token(refresh_tokens, resp.refresh, now) # 0
    /\ refresh_tokens[verify_refresh_token(refresh_tokens, resp.refresh, now)].user_id
          = resp.access.sub

\* C22: once POST /api/auth/logout has answered 200 for an access token, every
\* later GET /api/me that presents that token is answered 401.
C22_LoggedOutTokenRejected ==
    (flResp.op = "me" /\ flResp.jti \in flLoggedOut) => flResp.status = 401

\* C23: no two User records have the same e-mail, every stored e-mail is in
\* lower case, and a registration that commits for an address that already
\* has an account, also one that another worker created meanwhile, fails and
\* leaves the table as it was.
C23_EmailsUnique ==
    /\ [](\A i, j \in 1..Len(users) :
            /\ users[i].email = Lower(users[i].email)
            /\ i # j => users[i].email # users[j].email)
    /\ [][ /\ resp'.op = "register" /\ resp'.status # 200 => users' = users
           /\ \A w \in Workers :
                (/\ pc[w] = "register_checked"
                 /\ pc'[w] = "idle"
                 /\ UserByEmail(users, local[w].email) # 0) =>
                    /\ resp'.status \in {400, 500}
                    /\ users' = users
         ]_vars

\* C23 witness: two registrations for one address ran side by side, one
\* created the account and the other one was refused by the unique index
C23_Witness ==
    /\ resp.op = "register"
    /\ resp.branch = "unique"
    /\ Len(users) > 0

\* the answers of the Auth Gate to a request it rejects
AuthGateRefusals == {<<"Missing authorization token">>, <<"Invalid or expired token">>}

\* C24: a request that is not exempt from rate limiting and that the Auth
\* Gate answered with 401 has been counted against its client key before, so
\* the rate-limit store holds a bucket and a window for that key.
C24_RejectedRequestsCounted ==
    (/\ gwPc = "idle"
     /\ gwResp.status = 401
     /\ gwResp.detail \in AuthGateRefusals
     /\ ~_should_skip_rate_limit(gwReq)) =>
        LET client_ip == _get_client_ip(gwReq.origin)
        IN  /\ client_ip \in DOMAIN ip_buckets
            /\ client_ip \in DOMAIN ip_windows

\* C25: once shutdown has cancelled the background task and awaits it, the
\* task returns and the lifespan ends, wherever the task was when it was
\* cancelled.
C25_ShutdownCompletes ==
    \A task \in Tasks : (lifespan[task] = "awaiting") ~> (lifespan[task] = "closed")

\* whether the next request of client_ip is admitted, from the stores given
SweepAdmits(buckets, windows, client_ip) ==
    _check_rate_limitIn(buckets, windows, client_ip, now, SweepWindow, SweepMinute).allowed

\* C26: a key the idle sweep evicts has no entry inside the window and a
\* bucket that the refill brings to full capacity, and the next request of
\* the key is admitted or denied as it would have been without the sweep.
C26_SweepEvictsOnlyIdleFullKeys ==
    \A ip \in empty_ips(ip_windows, now, SweepWindow) :
        /\ \A i \in 1..Len(ip_windows[ip]) : ip_windows[ip][i] < now - SweepWindow
        /\ Refilled(ip_buckets[ip], now, SweepMinute) = RateLimit * SweepMinute
        /\ LET gone == empty_ips(ip_windows, now, SweepWindow)
               after == _check_rate_limitIn(PopAll(ip_buckets, gone), PopAll(ip_windows, gone),
                                            ip, now, SweepWindow, SweepMinute)
               before == _check_rate_limitIn(ip_buckets, ip_windows, ip, now,
                                             SweepWindow, SweepMinute)
           IN  /\ after.allowed = before.allowed
               /\ SweepAdmits(after.buckets, after.windows, ip)
                      = SweepAdmits(before.buckets, before.windows, ip)

\* the client keys of the traffic
TrafficClients == {_get_client_ip(DirectOrigin), _get_client_ip(ProxiedOrigin)}

\* C27: a client key does not stay in the rate-limit store for ever without
\* receiving requests: again and again it is either out of ip_buckets and
\* ip_windows or a request of it is being served.
C27_IdleKeysEventuallyRemoved ==
    \A ip \in TrafficClients :
        []<>(\/ ip \notin DOMAIN ip_buckets /\ ip \notin DOMAIN ip_windows
             \/ gwPc # "idle" /\ _get_client_ip(gwReq.origin) = ip)

\* C28: when the route of a request that passed the Auth Gate raised an
\* unexpected exception, the client gets 500 and not 401.
C28_RouteFaultIsInternalFailure ==
    (gwPc = "idle" /\ gwOutcome = RouteException) => gwResp.status = 500

\* C29: checks are serialised per key only: the locks that the checks on two
\* different keys take are different locks, so neither check can hold the lock
\* the other one waits for.
C29_ChecksSerialisedPerKey ==
    \A k1, k2 \in DOMAIN _requests : k1 # k2 => lock_of(k1) # lock_of(k2)

\* the positions of a worker inside POST /api/auth/refresh and /logout
InRefreshOrLogout == {"refresh_verified", "refresh_revoked", "logout_verified"}

\* C30: a step of logout or of refresh deletes no refresh-token record, keeps
\* the user, hash and expiry of every record, and leaves every record other
\* than the one of the presented token as it was; the steps that only verify
\* the presented token change no record at all.
C30_OnlyPresentedTokenRevoked ==
    [][\A w \in Workers :
          /\ (pc[w] \in InRefreshOrLogout /\ pc'[w] # pc[w]) =>
                /\ Len(refresh_tokens') >= Len(refresh_tokens)
                /\ \A i \in 1..Len(refresh_tokens) :
                      /\ refresh_tokens'[i].user_id = refresh_tokens[i].user_id
                      /\ refresh_tokens'[i].token_hash = refresh_tokens[i].token_hash
                      /\ refresh_tokens'[i].expires_at = refresh_tokens[i].expires_at
                      /\ refresh_tokens[i].token_hash # hash_token(local[w].token) =>
                            refresh_tokens'[i] = refresh_tokens[i]
          /\ (pc[w] = "idle" /\ pc'[w] \in InRefreshOrLogout) =>
                refresh_tokens' = refresh_tokens
          /\ (pc' = pc /\ resp'.op \in {"refresh", "logout"}) =>
                refresh_tokens' = refresh_tokens
      ]_vars

\* C30 witness: a logout or a rotation revoked the presented token while the
\* same user holds another token, which is still valid
C30_Witness ==
    /\ resp.op \in {"refresh", "logout"}
    /\ resp.branch = "ok"
    /\ RowOf(refresh_tokens, resp.presented) # 0
    /\ is_revoked(refresh_tokens[RowOf(refresh_tokens, resp.presented)])
    /\ \E i \in 1..Len(refresh_tokens) :
          /\ i # RowOf(refresh_tokens, resp.presented)
          /\ i # RowOf(refresh_tokens, resp.refresh)
          /\ refresh_tokens[i].user_id = refresh_tokens[RowOf(refresh_tokens, resp.presented)].user_id
          /\ verify_refresh_token(refresh_tokens, i, now) = i
====
